---- MODULE Spec2Model ----
(***************************************************************************)
(* A model of abses/cells.py: the PatchCell of a raster layer.             *)
(*                                                                         *)
(* Four specifications share the variables below:                          *)
(*   Spec          one PatchCell object: construction, the layer           *)
(*                 property, the agents container;                         *)
(*   AttrSpec      one PatchCell object: construction, attribute reads;    *)
(*   NeighborSpec  PatchCell.neighboring on a finite grid;                 *)
(*   RegistrySpec  raster_attribute and __attribute_properties__.          *)
(*                                                                         *)
(* Python values: an Optional value is a sequence, None == <<>> and        *)
(* Some(x) == <<x>>.  `fields` is the set of attribute names present in    *)
(* the instance's __dict__; reading an absent one is an AttributeError.    *)
(***************************************************************************)
EXTENDS Integers, Sequences, FiniteSets, TLC

VARIABLES
    max_agents,         \* PatchCell.max_agents, the class attribute of the cell type
    fields,             \* names of the attributes set on the instance
    _layer,             \* self._layer
    _agents,            \* self._agents: None until created, then Some(container)
    indices,            \* self.indices
    attrs,              \* the cell's stored attribute values, by name
    dynamic_variables,  \* layer.dynamic_variables: names the layer recomputes
    srcVer,             \* layer side: version of the data behind each variable
    lastReq,            \* version of the data at the latest refresh request
    shape,              \* layer.shape2d: <<rows, cols>>
    classes,            \* the declarations of the cell types, by type and name
    returned,           \* what __attribute_properties__ returned first, by type
    last                \* the latest call: operation, arguments, outcome

vars == <<max_agents, fields, _layer, _agents, indices, attrs,
          dynamic_variables, srcVer, lastReq, shape, classes, returned, last>>

\* ---------------------------------------------------------------- bounds
NumAgents == 3
MaxCap == 2
MaxVer == 2
RecursionLimit == 4
MaxDim == 5
MaxRadius == 2

\* ---------------------------------------------------------------- values
None == <<>>
Some(x) == <<x>>

Agents == 1..NumAgents
Values == 0..MaxVer
\* defaults a caller may supply to get(): None, or a value no attribute holds
Defaults == {None, Some(MaxVer + 1)}
AttrNames == {"elev", "owner"}

\* The objects a caller may pass as `layer`: a raster layer, an object that
\* is no RasterBase but has a `model` attribute, and one that has neither
\* (for instance Python's None).
RasterLayer == [id |-> "RasterLayer", isRasterBase |-> TRUE, hasModel |-> TRUE]
ModelHolder == [id |-> "ModelHolder", isRasterBase |-> FALSE, hasModel |-> TRUE]
PlainObject == [id |-> "PlainObject", isRasterBase |-> FALSE, hasModel |-> FALSE]
LayerArgs == {RasterLayer, ModelHolder, PlainObject}

Idle == [op |-> "none"]

\* ------------------------------------------------------- agents container
\* abses.container._CellAgentsContainer

NewContainer(max_len) == [members |-> <<>>, max_len |-> max_len]

Members(c) == {c.members[i] : i \in 1..Len(c.members)}

size(c) == Len(c.members)

contains(c, agent) == agent \in Members(c)

is_full(c) == c.max_len # None /\ size(c) >= c.max_len[1]

add(c, agent) ==
    IF is_full(c) THEN [err |-> "CapacityExceededError", c |-> c]
    ELSE IF contains(c, agent) THEN [err |-> "ok", c |-> c]
    ELSE [err |-> "ok", c |-> [c EXCEPT !.members = Append(@, agent)]]

remove(c, agent) ==
    IF ~contains(c, agent) THEN [err |-> "NotPresentError", c |-> c]
    ELSE [err |-> "ok",
          c |-> [c EXCEPT !.members = SelectSeq(@, LAMBDA a : a # agent)]]

\* ------------------------------------------------------------- PatchCell

\* _set_layer with the container created without max_len.
_set_layer_unbounded(layer) ==
    IF ~layer.isRasterBase
    THEN [err |-> "TypeError", fields |-> fields,
          _layer |-> _layer, _agents |-> _agents]
    ELSE [err |-> "ok", fields |-> fields \cup {"_layer", "_agents"},
          _layer |-> Some(layer.id),
          _agents |-> Some(NewContainer(None))]

\* _set_layer with max_len one more than max_agents.
_set_layer_off_by_one(layer) ==
    IF ~layer.isRasterBase
    THEN [err |-> "TypeError", fields |-> fields,
          _layer |-> _layer, _agents |-> _agents]
    ELSE [err |-> "ok", fields |-> fields \cup {"_layer", "_agents"},
          _layer |-> Some(layer.id),
          _agents |-> Some(NewContainer(
              IF max_agents = None THEN None ELSE Some(max_agents[1] + 1)))]

\* _set_layer(layer): the isinstance check, then the two assignments.
\* max_len is getattr(self, "max_agents", None): the class attribute.
_set_layer(layer) ==
    IF ~layer.isRasterBase
    THEN [err |-> "TypeError", fields |-> fields,
          _layer |-> _layer, _agents |-> _agents]
    ELSE [err |-> "ok", fields |-> fields \cup {"_layer", "_agents"},
          _layer |-> Some(layer.id),
          _agents |-> Some(NewContainer(max_agents))]

\* __init__(layer, indices, pos): `layer.model` is evaluated first, for the
\* base initialiser; then indices and pos are stored; then _set_layer.
init(layer, idx) ==
    IF ~layer.hasModel
    THEN [err |-> "AttributeError", fields |-> fields, _layer |-> _layer,
          _agents |-> _agents, indices |-> indices]
    ELSE LET r == _set_layer(layer) IN
         [err |-> r.err, fields |-> r.fields \cup {"indices", "pos"},
          _layer |-> r._layer, _agents |-> r._agents, indices |-> idx]

\* The `layer` property and __repr__.  The guard's message formats `self`,
\* which calls __repr__, which reads `self.layer` again: each nested call
\* is one frame deeper, and Python ends the descent with a RecursionError.
\* An exception raised while the message is built replaces the ABSESpyError.
RECURSIVE layer(_), repr(_)
layer(depth) ==
    IF depth > RecursionLimit THEN [err |-> "RecursionError", val |-> None]
    ELSE IF "_layer" \notin fields THEN [err |-> "AttributeError", val |-> None]
    ELSE IF _layer = None
    THEN LET msg == repr(depth + 1) IN
         IF msg.err # "ok" THEN msg
         ELSE [err |-> "ABSESpyError", val |-> None]
    ELSE [err |-> "ok", val |-> _layer]

repr(depth) ==
    IF depth > RecursionLimit THEN [err |-> "RecursionError", val |-> None]
    ELSE LET l == layer(depth + 1) IN
         IF l.err # "ok" THEN l
         ELSE [err |-> "ok", val |-> Some(<<"Cell at", l.val[1], indices>>)]

\* The `agents` property.
agents == _agents[1]

\* layer.dynamic_var(attr_name): the layer recomputes the variable from its
\* current data and stores the result on the cell.
dynamic_var(store, req, attr) ==
    [attrs |-> [n \in DOMAIN store \cup {attr} |->
                    IF n = attr THEN srcVer[attr] ELSE store[n]],
     lastReq |-> [req EXCEPT ![attr] = srcVer[attr]]]

\* The inherited get(attr, target, default), with target None: the stored
\* value, or the default when the name is not set.
base_get(store, attr, default) ==
    IF attr \in DOMAIN store THEN Some(store[attr]) ELSE default

\* get that reads first and asks the layer to refresh afterwards.
get_read_then_refresh(attr, default) ==
    LET l == layer(1) IN
    IF l.err # "ok"
    THEN [err |-> l.err, val |-> None, attrs |-> attrs, lastReq |-> lastReq]
    ELSE LET r == IF attr \in dynamic_variables
                  THEN dynamic_var(attrs, lastReq, attr)
                  ELSE [attrs |-> attrs, lastReq |-> lastReq]
         IN [err |-> "ok", val |-> base_get(attrs, attr, default),
             attrs |-> r.attrs, lastReq |-> r.lastReq]

\* get that does not pass `default` on to the inherited get.
get_default_dropped(attr, default) ==
    LET l == layer(1) IN
    IF l.err # "ok"
    THEN [err |-> l.err, val |-> None, attrs |-> attrs, lastReq |-> lastReq]
    ELSE LET r == IF attr \in dynamic_variables
                  THEN dynamic_var(attrs, lastReq, attr)
                  ELSE [attrs |-> attrs, lastReq |-> lastReq]
         IN [err |-> "ok", val |-> base_get(r.attrs, attr, None),
             attrs |-> r.attrs, lastReq |-> r.lastReq]

\* get(attr, target=None, default): refresh when dynamic, then read.
get(attr, default) ==
    LET l == layer(1) IN
    IF l.err # "ok"
    THEN [err |-> l.err, val |-> None, attrs |-> attrs, lastReq |-> lastReq]
    ELSE LET r == IF attr \in dynamic_variables
                  THEN dynamic_var(attrs, lastReq, attr)
                  ELSE [attrs |-> attrs, lastReq |-> lastReq]
         IN [err |-> "ok", val |-> base_get(r.attrs, attr, default),
             attrs |-> r.attrs, lastReq |-> r.lastReq]

\* ------------------------------------------------------------ Spec: actions
TypeCell == /\ classes = <<>>
            /\ returned = <<>>
            /\ shape = <<1, 1>>

\* A cell object as allocated, before __init__ runs.  Whether the base
\* classes leave `_layer` absent or None is not decided in this file.
Allocated ==
    /\ fields \in {{}, {"_layer"}}
    /\ _layer = None
    /\ _agents = None
    /\ indices = None
    /\ attrs = <<>>
    /\ srcVer = [n \in AttrNames |-> 0]
    /\ lastReq = [n \in AttrNames |-> 0]
    /\ TypeCell
    /\ last = Idle

Init ==
    /\ max_agents \in {None} \cup {Some(k) : k \in 1..MaxCap}
    /\ dynamic_variables = {}
    /\ Allocated

AttrInit ==
    /\ max_agents = None
    /\ dynamic_variables \in SUBSET AttrNames
    /\ Allocated

Constructed == "_agents" \in fields
Fresh == "indices" \notin fields

Construct(l) ==
    /\ Fresh
    /\ LET r == init(l, <<0, 0>>) IN
       /\ fields' = r.fields
       /\ _layer' = r._layer
       /\ _agents' = r._agents
       /\ indices' = r.indices
       /\ last' = [op |-> "construct", arg |-> l.id, err |-> r.err]
    /\ UNCHANGED <<max_agents, attrs, dynamic_variables, srcVer, lastReq,
                   shape, classes, returned>>

GetLayer ==
    /\ LET r == layer(1) IN
       last' = [op |-> "layer", err |-> r.err, val |-> r.val]
    /\ UNCHANGED <<max_agents, fields, _layer, _agents, indices, attrs,
                   dynamic_variables, srcVer, lastReq, shape, classes, returned>>

Add(a) ==
    /\ Constructed
    /\ LET r == add(agents, a) IN
       /\ _agents' = Some(r.c)
       /\ last' = [op |-> "add", arg |-> a, err |-> r.err, before |-> agents]
    /\ UNCHANGED <<max_agents, fields, _layer, indices, attrs,
                   dynamic_variables, srcVer, lastReq, shape, classes, returned>>

Remove(a) ==
    /\ Constructed
    /\ LET r == remove(agents, a) IN
       /\ _agents' = Some(r.c)
       /\ last' = [op |-> "remove", arg |-> a, err |-> r.err, before |-> agents]
    /\ UNCHANGED <<max_agents, fields, _layer, indices, attrs,
                   dynamic_variables, srcVer, lastReq, shape, classes, returned>>

\* setattr(cell, name, value)
SetAttr(n, v) ==
    /\ attrs' = [m \in DOMAIN attrs \cup {n} |-> IF m = n THEN v ELSE attrs[m]]
    /\ last' = [op |-> "set", arg |-> n, val |-> Some(v)]
    /\ UNCHANGED <<max_agents, fields, _layer, _agents, indices,
                   dynamic_variables, srcVer, lastReq, shape, classes, returned>>

Get(n, d) ==
    /\ LET r == get(n, d) IN
       /\ attrs' = r.attrs
       /\ lastReq' = r.lastReq
       /\ last' = [op |-> "get", arg |-> n, default |-> d, err |-> r.err,
                   val |-> r.val]
    /\ UNCHANGED <<max_agents, fields, _layer, _agents, indices,
                   dynamic_variables, srcVer, shape, classes, returned>>

\* The data behind a dynamic variable changes.
LayerUpdate(n) ==
    /\ Constructed
    /\ n \in dynamic_variables
    /\ srcVer[n] < MaxVer
    /\ srcVer' = [srcVer EXCEPT ![n] = @ + 1]
    /\ last' = [op |-> "update", arg |-> n]
    /\ UNCHANGED <<max_agents, fields, _layer, _agents, indices, attrs,
                   dynamic_variables, lastReq, shape, classes, returned>>

\* Another caller asks the layer to refresh a dynamic variable.
LayerRefresh(n) ==
    /\ Constructed
    /\ n \in dynamic_variables
    /\ LET r == dynamic_var(attrs, lastReq, n) IN
       /\ attrs' = r.attrs
       /\ lastReq' = r.lastReq
    /\ last' = [op |-> "refresh", arg |-> n]
    /\ UNCHANGED <<max_agents, fields, _layer, _agents, indices,
                   dynamic_variables, srcVer, shape, classes, returned>>

Next ==
    \/ \E l \in LayerArgs : Construct(l)
    \/ GetLayer
    \/ \E a \in Agents : Add(a)
    \/ \E a \in Agents : Remove(a)

Spec == Init /\ [][Next]_vars

AttrNext ==
    \/ \E l \in LayerArgs : Construct(l)
    \/ \E n \in AttrNames, v \in Values : SetAttr(n, v)
    \/ \E n \in AttrNames, d \in Defaults : Get(n, d)
    \/ \E n \in AttrNames : LayerUpdate(n)
    \/ \E n \in AttrNames : LayerRefresh(n)

AttrSpec == AttrInit /\ [][AttrNext]_vars

\* ------------------------------------------------------------ the layer grid
\* layer side of neighboring: PatchModule.get_neighboring_by_indices

Abs(x) == IF x < 0 THEN 0 - x ELSE x

Max(a, b) == IF a >= b THEN a ELSE b

\* Chebyshev distance when moore, Manhattan distance otherwise
Dist(moore, p, q) ==
    IF moore THEN Max(Abs(p[1] - q[1]), Abs(p[2] - q[2]))
    ELSE Abs(p[1] - q[1]) + Abs(p[2] - q[2])

InBounds(p) == p[1] \in 0..(shape[1] - 1) /\ p[2] \in 0..(shape[2] - 1)

\* Whether candidate p belongs to the neighborhood of centre: the ring when
\* annular (include_center is ignored there when radius > 0), the filled
\* window otherwise, with the centre only on request.
Selected(p, centre, moore, radius, include_center, annular) ==
    /\ InBounds(p)
    /\ IF annular /\ radius > 0 THEN Dist(moore, p, centre) = radius
       ELSE /\ Dist(moore, p, centre) <= radius
            /\ p # centre \/ include_center

\* The bounding window of the centre, by increasing row, then column.
Window(centre, radius) ==
    LET w == 2 * radius + 1 IN
    [k \in 1..(w * w) |->
        <<centre[1] - radius + ((k - 1) \div w),
          centre[2] - radius + ((k - 1) % w)>>]

get_neighboring_by_indices(idx, moore, radius, include_center, annular) ==
    SelectSeq(Window(idx, radius),
              LAMBDA p : Selected(p, idx, moore, radius, include_center, annular))

\* neighboring called without passing radius on
neighboring_radius_dropped(moore, radius, include_center, annular) ==
    get_neighboring_by_indices(indices[1], moore, 1, include_center, annular)

\* neighboring called without passing annular on
neighboring_annular_dropped(moore, radius, include_center, annular) ==
    get_neighboring_by_indices(indices[1], moore, radius, include_center, FALSE)

\* neighboring called without passing include_center on
neighboring_center_dropped(moore, radius, include_center, annular) ==
    get_neighboring_by_indices(indices[1], moore, radius, FALSE, annular)

\* PatchCell.neighboring: the layer's resolver on the cell's own indices
neighboring(moore, radius, include_center, annular) ==
    get_neighboring_by_indices(indices[1], moore, radius, include_center, annular)

\* ----------------------------------------------------- NeighborSpec: actions
GridCells(sh) == (0..(sh[1] - 1)) \X (0..(sh[2] - 1))

\* A cell of a layer's grid, as the layer constructs it.
NeighborInit ==
    /\ max_agents = None
    /\ shape \in (1..MaxDim) \X (1..MaxDim)
    /\ \E p \in GridCells(shape) : indices = Some(p)
    /\ fields = {"indices", "pos", "_layer", "_agents"}
    /\ _layer = Some(RasterLayer.id)
    /\ _agents = Some(NewContainer(max_agents))
    /\ attrs = <<>>
    /\ dynamic_variables = {}
    /\ srcVer = [n \in AttrNames |-> 0]
    /\ lastReq = [n \in AttrNames |-> 0]
    /\ classes = <<>>
    /\ returned = <<>>
    /\ last = Idle

Neighboring(moore, radius, include_center, annular) ==
    /\ last' = [op |-> "neighboring", moore |-> moore, radius |-> radius,
                include_center |-> include_center, annular |-> annular,
                val |-> neighboring(moore, radius, include_center, annular)]
    /\ UNCHANGED <<max_agents, fields, _layer, _agents, indices, attrs,
                   dynamic_variables, srcVer, lastReq, shape, classes, returned>>

NeighborNext ==
    \E moore \in BOOLEAN, radius \in 1..MaxRadius,
       include_center \in BOOLEAN, annular \in BOOLEAN :
        Neighboring(moore, radius, include_center, annular)

NeighborSpec == NeighborInit /\ [][NeighborNext]_vars

\* ------------------------------------------------------ attribute registry
Types == {"Base", "Child"}

\* the types a lookup on T goes through: the type itself, then its parents
Mro(T) == IF T = "Child" THEN <<"Child", "Base">> ELSE <<"Base">>

\* What a class body may say about a name.
Declarations ==
    {"undeclared", "raster_attribute", "property", "method", "flagged_method"}

Function(flag) == [type |-> "function", is_decorated |-> flag]

property(func) == [type |-> "property", fget |-> func]

\* raster_attribute(func): set the marker on func, wrap it as a property
raster_attribute(func) == property([func EXCEPT !.is_decorated = TRUE])

\* The object a declaration puts into the class namespace.
Declared(d) ==
    CASE d = "raster_attribute" -> raster_attribute(Function(FALSE))
      [] d = "property" -> property(Function(FALSE))
      [] d = "method" -> Function(FALSE)
      [] d = "flagged_method" -> Function(TRUE)

\* cls.__dict__
ClassDict(T) ==
    [n \in {m \in AttrNames : classes[T][m] # "undeclared"} |->
        Declared(classes[T][n])]

IsExposed(method) ==
    method.type = "property" /\ method.fget.is_decorated

\* __attribute_properties__ looking names up through the parents as well
attribute_properties_inherited(T) ==
    {n \in AttrNames :
        \E i \in 1..Len(Mro(T)) :
            /\ n \in DOMAIN ClassDict(Mro(T)[i])
            /\ \A j \in 1..(i - 1) : n \notin DOMAIN ClassDict(Mro(T)[j])
            /\ IsExposed(ClassDict(Mro(T)[i])[n])}

\* __attribute_properties__: the marked properties of cls.__dict__
attribute_properties(T) ==
    {n \in DOMAIN ClassDict(T) : IsExposed(ClassDict(T)[n])}

\* ----------------------------------------------------- RegistrySpec: actions
\* Two cell types, Child a subclass of Base, with any declarations, and a
\* constructed instance.
RegistryInit ==
    /\ max_agents = None
    /\ shape = <<1, 1>>
    /\ indices = Some(<<0, 0>>)
    /\ fields = {"indices", "pos", "_layer", "_agents"}
    /\ _layer = Some(RasterLayer.id)
    /\ _agents = Some(NewContainer(max_agents))
    /\ attrs = <<>>
    /\ dynamic_variables = {}
    /\ srcVer = [n \in AttrNames |-> 0]
    /\ lastReq = [n \in AttrNames |-> 0]
    /\ classes \in [Types -> [AttrNames -> Declarations]]
    /\ returned = [T \in Types |-> None]
    /\ last = Idle

AttributeProperties(T) ==
    /\ LET r == attribute_properties(T) IN
       /\ last' = [op |-> "attribute_properties", arg |-> T, val |-> r]
       /\ returned' = IF returned[T] = None
                      THEN [returned EXCEPT ![T] = Some(r)] ELSE returned
    /\ UNCHANGED <<max_agents, fields, _layer, _agents, indices, attrs,
                   dynamic_variables, srcVer, lastReq, shape, classes>>

\* The instance's state changes between two calls.
Touch(a) ==
    /\ _agents' = Some(add(agents, a).c)
    /\ last' = [op |-> "touch", arg |-> a]
    /\ UNCHANGED <<max_agents, fields, _layer, indices, attrs,
                   dynamic_variables, srcVer, lastReq, shape, classes, returned>>

RegistryNext ==
    \/ \E T \in Types : AttributeProperties(T)
    \/ Touch(1)

RegistrySpec == RegistryInit /\ [][RegistryNext]_vars

\* ---------------------------------------------------- claims: NeighborSpec
centre == indices[1]

AsSet(seq) == {seq[i] : i \in 1..Len(seq)}

NoDuplicates(seq) == Cardinality(AsSet(seq)) = Len(seq)

Within(moore, radius) ==
    {p \in GridCells(shape) : p # centre /\ Dist(moore, p, centre) <= radius}

Ring(moore, radius) ==
    {p \in GridCells(shape) : Dist(moore, p, centre) = radius}

\* the whole window of the radius lies inside the grid
Interior(radius) ==
    /\ centre[1] >= radius /\ centre[1] + radius < shape[1]
    /\ centre[2] >= radius /\ centre[2] + radius < shape[2]

\* C7: without include_center and annular, neighboring returns exactly the
\* other cells of the grid within the radius (Chebyshev distance when moore,
\* Manhattan otherwise), each once; on a 3x3 grid cell (1,1) has 4 von
\* Neumann and 8 Moore neighbors, and corner (0,0) has 3 Moore neighbors.
C7_FilledWindow ==
    last.op = "neighboring" /\ ~last.include_center /\ ~last.annular =>
        /\ AsSet(last.val) = Within(last.moore, last.radius)
        /\ NoDuplicates(last.val)
        /\ (shape = <<3, 3>> /\ last.radius = 1 /\ centre = <<1, 1>> =>
                Len(last.val) = IF last.moore THEN 8 ELSE 4)
        /\ (shape = <<3, 3>> /\ last.radius = 1 /\ centre = <<0, 0>>
                /\ last.moore => Len(last.val) = 3)

C7_Witness ==
    /\ last.op = "neighboring" /\ ~last.include_center /\ ~last.annular
    /\ shape = <<3, 3>> /\ centre = <<0, 0>> /\ last.moore /\ last.radius = 1
    /\ AsSet(last.val) = {<<0, 1>>, <<1, 0>>, <<1, 1>>}

C6_ExactlyOwnMarked ==
    last.op = "attribute_properties" =>
        /\ last.val = {n \in AttrNames : classes[last.arg][n] = "raster_attribute"}
        /\ returned[last.arg] = Some(last.val)

C6_Witness ==
    /\ last.op = "attribute_properties" /\ last.arg = "Child"
    /\ classes["Base"]["elev"] = "raster_attribute"
    /\ classes["Child"]["elev"] = "undeclared"
    /\ classes["Child"]["owner"] = "raster_attribute"
    /\ last.val = {"owner"}
    /\ size(agents) = 1

\* ------------------------------------------------------------ claims: Spec
Bound == "_layer" \in fields /\ _layer # None

AtCapacity(c) == max_agents # None /\ size(c) >= max_agents[1]

\* C1: for a cell type with max_agents set, the container never holds more
\* than max_agents agents, and an add issued when it holds max_agents agents
\* fails with CapacityExceededError and leaves the members as they were.
C1_CapacityNeverExceeded ==
    Constructed /\ max_agents # None =>
        /\ size(agents) <= max_agents[1]
        /\ (last.op = "add" /\ size(last.before) = max_agents[1] =>
                /\ last.err = "CapacityExceededError"
                /\ agents.members = last.before.members)

C1_Witness ==
    /\ Constructed /\ max_agents # None
    /\ last.op = "add" /\ last.err = "CapacityExceededError"
    /\ size(last.before) = max_agents[1]
    /\ size(agents) > 1

\* C2: constructing a cell with a layer that is no raster layer fails with
\* the invalid-layer error (TypeError), and leaves the cell with no bound
\* layer and no agents container.
C2_InvalidLayerRejected ==
    last.op = "construct" /\ last.arg # RasterLayer.id =>
        /\ last.err = "TypeError"
        /\ ~Bound
        /\ "_agents" \notin fields

\* C5: reading `layer` on a cell that is not bound ends with the unbound-cell
\* error (ABSESpyError); on a bound cell it returns the layer of construction.
C5_LayerOrUnboundError ==
    last.op = "layer" =>
        IF Bound THEN last.err = "ok" /\ last.val = Some(RasterLayer.id)
        ELSE last.err = "ABSESpyError"

\* C10 as stated: adding an agent that is present, at capacity or not, is a
\* successful no-op; removing an absent agent fails with NotPresentError and
\* changes nothing.
C10_AddPresentIsNoOp ==
    Constructed =>
        /\ (last.op = "add" /\ contains(last.before, last.arg) =>
                /\ last.err = "ok"
                /\ agents = last.before
                /\ contains(agents, last.arg))
        /\ (last.op = "remove" /\ ~contains(last.before, last.arg) =>
                /\ last.err = "NotPresentError"
                /\ agents = last.before)

\* C10 amended: adding an agent that is present never changes the members;
\* below capacity it succeeds, at capacity it fails with
\* CapacityExceededError.  Removing an absent agent fails with
\* NotPresentError and changes nothing.
C10_AddPresentKeepsMembers ==
    Constructed =>
        /\ (last.op = "add" /\ contains(last.before, last.arg) =>
                /\ last.err = IF AtCapacity(last.before)
                              THEN "CapacityExceededError" ELSE "ok"
                /\ agents = last.before
                /\ contains(agents, last.arg)
                /\ size(agents) = Cardinality(Members(agents)))
        /\ (last.op = "remove" /\ ~contains(last.before, last.arg) =>
                /\ last.err = "NotPresentError"
                /\ agents = last.before)

C10_Witness ==
    /\ Constructed
    /\ last.op = "add" /\ contains(last.before, last.arg)
    /\ AtCapacity(last.before)
    /\ last.err = "CapacityExceededError"

\* -------------------------------------------------------- claims: AttrSpec
\* C3: a get of a dynamic variable asks the layer to refresh it on the
\* current data before reading, so the value returned is never older than
\* the latest refresh request.
C3_DynamicReadIsFresh ==
    last.op = "get" /\ last.err = "ok" /\ last.arg \in dynamic_variables =>
        /\ lastReq[last.arg] = srcVer[last.arg]
        /\ last.val # None
        /\ last.val[1] >= lastReq[last.arg]

C3_Witness ==
    /\ last.op = "get" /\ last.err = "ok" /\ last.arg \in dynamic_variables
    /\ srcVer[last.arg] = MaxVer
    /\ last.val = Some(MaxVer)

IsStatic(n) == n \notin dynamic_variables

====
